---- MODULE Spec2Model ----
(***************************************************************************)
(* A model of the gemini-unlock command line tool: the orchestrator of     *)
(* src/src/main.rs, the Process Monitor and Process Terminator of          *)
(* src/src/platform.rs and the Patch Engine of src/src/patcher.rs.         *)
(*                                                                         *)
(* External commands (pgrep, tasklist, osascript, taskkill, kill) and the  *)
(* file system calls are inputs of the steps that make them: each step     *)
(* draws the outcome of its calls from a small set.                        *)
(***************************************************************************)
EXTENDS Integers, Sequences, FiniteSets, TLC

VARIABLES
    os,           \* the detected operating system (std::env::consts::OS)
    kill_chrome,  \* Cli.kill_chrome
    restore,      \* Cli.restore
    envSet,       \* the environment variables that are set
    pc,           \* the position of the run
    err,          \* the error run() ends with, "none" while there is none
    exitCode,     \* the exit status of the process, -1 while it runs
    live,         \* the configuration file (chrome_state)
    backup,       \* the backup file (backup_path)
    live0,        \* the configuration file as it was when the run started
    backup0,      \* the backup file as it was when the run started
    waitNo,       \* which bounded wait of stop_chrome is under way (0: none)
    elapsed,      \* start.elapsed() of the wait under way, in milliseconds
    attempts,     \* attempts of the wait under way
    content,      \* the text read from the configuration file
    report,       \* the result of apply_patches
    report0,      \* the result of the apply_patches call before, if any
    trace,        \* the probes, stop requests and file operations made so far
    history       \* the runs before this one, the oldest first

vars == <<os, kill_chrome, restore, envSet, pc, err, exitCode, live, backup,
          live0, backup0, waitNo, elapsed, attempts, content, report, report0,
          trace, history>>

(***************************************************************************)
(* Bounds of the model.                                                    *)
(***************************************************************************)
MaxArrLen == 2
MaxSlack == 1
MaxPidItems == 2
MaxPid == 2
MaxApply == 2
MaxRuns == 3

(***************************************************************************)
(* JSON values (serde_json::Value) and JSON text as a token sequence.      *)
(***************************************************************************)
JNull == [t |-> "null"]
JBool(b) == [t |-> "bool", b |-> b]
JNum(n) == [t |-> "num", n |-> n]
JStr(s) == [t |-> "str", s |-> s]
JArr(a) == [t |-> "arr", a |-> a]
JObj(o) == [t |-> "obj", o |-> o]

EmptyMap == [k \in {} |-> JNull]

KEY_IS_GLIC == "is_glic_eligible"
KEY_COUNTRY == "variations_country"
KEY_PERMANENT == "variations_permanent_consistency_country"

\* The order serde_json's Map iterates its keys in (the keys of the model).
KeyOrder == <<"is_glic_eligible", "profile", "variations_country",
              "variations_permanent_consistency_country">>

Tok(k, s) == [k |-> k, s |-> s]
LBrace == Tok("lbrace", "")
RBrace == Tok("rbrace", "")
LBrack == Tok("lbrack", "")
RBrack == Tok("rbrack", "")
Colon == Tok("colon", "")
Comma == Tok("comma", "")
Ws == Tok("ws", "")
TStr(s) == Tok("str", s)
TNum(n) == [k |-> "num", s |-> "", n |-> n]
TLit(w) == Tok(w, "")
TBad(w) == Tok("bad", w)

\* A mutant of StripWs: whitespace is not skipped.
KeepWs(ts) == ts

RECURSIVE StripWs(_)
StripWs(ts) ==
    IF ts = <<>> THEN <<>>
    ELSE IF Head(ts).k = "ws" THEN StripWs(Tail(ts))
    ELSE <<Head(ts)>> \o StripWs(Tail(ts))

ParseFail == [ok |-> FALSE, v |-> JNull, rest |-> <<>>]
ParseOk(v, rest) == [ok |-> TRUE, v |-> v, rest |-> rest]

MapInsert(m, key, v) ==
    [k \in DOMAIN m \cup {key} |-> IF k = key THEN v ELSE m[k]]

RECURSIVE ParseValue(_), ParseElems(_, _), ParseMembers(_, _)
ParseValue(ts) ==
    IF ts = <<>> THEN ParseFail
    ELSE LET h == Head(ts)
             r == Tail(ts)
         IN CASE h.k = "true" -> ParseOk(JBool(TRUE), r)
              [] h.k = "false" -> ParseOk(JBool(FALSE), r)
              [] h.k = "null" -> ParseOk(JNull, r)
              [] h.k = "str" -> ParseOk(JStr(h.s), r)
              [] h.k = "num" -> ParseOk(JNum(h.n), r)
              [] h.k = "lbrack" ->
                    IF r # <<>> /\ Head(r).k = "rbrack"
                    THEN ParseOk(JArr(<<>>), Tail(r))
                    ELSE ParseElems(r, <<>>)
              [] h.k = "lbrace" ->
                    IF r # <<>> /\ Head(r).k = "rbrace"
                    THEN ParseOk(JObj(EmptyMap), Tail(r))
                    ELSE ParseMembers(r, EmptyMap)
              [] OTHER -> ParseFail

ParseElems(ts, acc) ==
    LET e == ParseValue(ts)
    IN IF ~e.ok \/ e.rest = <<>> THEN ParseFail
       ELSE LET sep == Head(e.rest)
                acc2 == Append(acc, e.v)
            IN CASE sep.k = "comma" -> ParseElems(Tail(e.rest), acc2)
                 [] sep.k = "rbrack" -> ParseOk(JArr(acc2), Tail(e.rest))
                 [] OTHER -> ParseFail

ParseMembers(ts, acc) ==
    IF Len(ts) < 2 \/ ts[1].k # "str" \/ ts[2].k # "colon" THEN ParseFail
    ELSE LET e == ParseValue(SubSeq(ts, 3, Len(ts)))
         IN IF ~e.ok \/ e.rest = <<>> THEN ParseFail
            ELSE LET sep == Head(e.rest)
                     acc2 == MapInsert(acc, ts[1].s, e.v)
                 IN CASE sep.k = "comma" -> ParseMembers(Tail(e.rest), acc2)
                      [] sep.k = "rbrace" -> ParseOk(JObj(acc2), Tail(e.rest))
                      [] OTHER -> ParseFail

\* A mutant of FromStr: what follows the first value is not looked at.
FromStrIgnoringRest(text) == ParseValue(StripWs(text))

\* serde_json::from_str: one value, and nothing but whitespace after it.
FromStr(text) ==
    LET p == ParseValue(StripWs(text))
    IN IF p.ok /\ p.rest = <<>> THEN p ELSE ParseFail

RECURSIVE SelectKeys(_, _)
SelectKeys(order, dom) ==
    IF order = <<>> THEN <<>>
    ELSE IF Head(order) \in dom
         THEN <<Head(order)>> \o SelectKeys(Tail(order), dom)
         ELSE SelectKeys(Tail(order), dom)

\* serde_json::to_string_pretty: line breaks and indentation are Ws tokens.
RECURSIVE ToStringPretty(_), PrettyElems(_), PrettyMembers(_, _)
ToStringPretty(v) ==
    CASE v.t = "null" -> <<TLit("null")>>
      [] v.t = "bool" -> <<TLit(IF v.b THEN "true" ELSE "false")>>
      [] v.t = "num" -> <<TNum(v.n)>>
      [] v.t = "str" -> <<TStr(v.s)>>
      [] v.t = "arr" ->
            IF v.a = <<>> THEN <<LBrack, RBrack>>
            ELSE <<LBrack, Ws>> \o PrettyElems(v.a) \o <<Ws, RBrack>>
      [] v.t = "obj" ->
            IF DOMAIN v.o = {} THEN <<LBrace, RBrace>>
            ELSE <<LBrace, Ws>>
                 \o PrettyMembers(v.o, SelectKeys(KeyOrder, DOMAIN v.o))
                 \o <<Ws, RBrace>>

PrettyElems(a) ==
    IF Len(a) = 1 THEN ToStringPretty(a[1])
    ELSE ToStringPretty(a[1]) \o <<Comma, Ws>> \o PrettyElems(Tail(a))

PrettyMembers(o, keys) ==
    LET m == <<TStr(keys[1]), Colon, Ws>> \o ToStringPretty(o[keys[1]])
    IN IF Len(keys) = 1 THEN m
       ELSE m \o <<Comma, Ws>> \o PrettyMembers(o, Tail(keys))

\* The compact form the tests and a browser write: no whitespace.
RECURSIVE ToStringCompact(_), CompactElems(_), CompactMembers(_, _)
ToStringCompact(v) ==
    CASE v.t = "arr" ->
            IF v.a = <<>> THEN <<LBrack, RBrack>>
            ELSE <<LBrack>> \o CompactElems(v.a) \o <<RBrack>>
      [] v.t = "obj" ->
            IF DOMAIN v.o = {} THEN <<LBrace, RBrace>>
            ELSE <<LBrace>>
                 \o CompactMembers(v.o, SelectKeys(KeyOrder, DOMAIN v.o))
                 \o <<RBrace>>
      [] OTHER -> ToStringPretty(v)

CompactElems(a) ==
    IF Len(a) = 1 THEN ToStringCompact(a[1])
    ELSE ToStringCompact(a[1]) \o <<Comma>> \o CompactElems(Tail(a))

CompactMembers(o, keys) ==
    LET m == <<TStr(keys[1]), Colon>> \o ToStringCompact(o[keys[1]])
    IN IF Len(keys) = 1 THEN m
       ELSE m \o <<Comma>> \o CompactMembers(o, Tail(keys))

(***************************************************************************)
(* The Patch Engine: apply_patches of src/src/patcher.rs.                  *)
(***************************************************************************)
Patched(obj, changed) == [obj |-> obj, changed |-> changed]

\* A mutant of PatchIsGlic: the type of the current value is not looked at.
PatchIsGlicNoTypeGuard(obj) ==
    IF KEY_IS_GLIC \in DOMAIN obj
    THEN Patched([obj EXCEPT ![KEY_IS_GLIC] = JBool(TRUE)], TRUE)
    ELSE Patched(obj, FALSE)

\* A mutant of PatchIsGlic: a change is made and reported only when the
\* value is not true already.
PatchIsGlicOnlyIfFalse(obj) ==
    IF KEY_IS_GLIC \in DOMAIN obj /\ obj[KEY_IS_GLIC] = JBool(FALSE)
    THEN Patched([obj EXCEPT ![KEY_IS_GLIC] = JBool(TRUE)], TRUE)
    ELSE Patched(obj, FALSE)

\* A mutant of PatchIsGlic: the key is patched inside "profile" as well.
PatchIsGlicDeep(obj) ==
    LET deep == IF "profile" \in DOMAIN obj /\ obj["profile"].t = "obj"
                      /\ KEY_IS_GLIC \in DOMAIN obj["profile"].o
                THEN [obj EXCEPT !["profile"] =
                         JObj([obj["profile"].o EXCEPT ![KEY_IS_GLIC] = JBool(TRUE)])]
                ELSE obj
    IN IF KEY_IS_GLIC \in DOMAIN obj /\ obj[KEY_IS_GLIC].t = "bool"
       THEN Patched([deep EXCEPT ![KEY_IS_GLIC] = JBool(TRUE)], TRUE)
       ELSE Patched(deep, FALSE)

\* 3. is_glic_eligible: overwritten with true when present and a boolean.
PatchIsGlic(obj) ==
    IF KEY_IS_GLIC \in DOMAIN obj /\ obj[KEY_IS_GLIC].t = "bool"
    THEN Patched([obj EXCEPT ![KEY_IS_GLIC] = JBool(TRUE)], TRUE)
    ELSE Patched(obj, FALSE)

\* A mutant of PatchVariationsCountry: only a string is overwritten.
PatchVariationsCountryStringsOnly(obj) ==
    IF KEY_COUNTRY \in DOMAIN obj /\ obj[KEY_COUNTRY].t = "str"
    THEN Patched(MapInsert(obj, KEY_COUNTRY, JStr("us")), TRUE)
    ELSE Patched(obj, FALSE)

\* A mutant of PatchVariationsCountry: the key is inserted when absent.
PatchVariationsCountryCreating(obj) ==
    Patched(MapInsert(obj, KEY_COUNTRY, JStr("us")), KEY_COUNTRY \in DOMAIN obj)

\* 4. variations_country: overwritten with "us" when present.
PatchVariationsCountry(obj) ==
    IF KEY_COUNTRY \in DOMAIN obj
    THEN Patched(MapInsert(obj, KEY_COUNTRY, JStr("us")), TRUE)
    ELSE Patched(obj, FALSE)

\* A mutant of PatchPermanentCountry: the value's type is not looked at.
PatchPermanentCountryNoTypeGuard(obj) ==
    IF KEY_PERMANENT \in DOMAIN obj
    THEN Patched([obj EXCEPT ![KEY_PERMANENT] = JArr(<<JStr("us")>>)], TRUE)
    ELSE Patched(obj, FALSE)

\* 5. variations_permanent_consistency_country: ["us"] when an array.
PatchPermanentCountry(obj) ==
    IF KEY_PERMANENT \in DOMAIN obj /\ obj[KEY_PERMANENT].t = "arr"
    THEN Patched([obj EXCEPT ![KEY_PERMANENT] = JArr(<<JStr("us")>>)], TRUE)
    ELSE Patched(obj, FALSE)

\* Steps 3 to 5: the document in memory after the three patches.
Mutate(obj) ==
    PatchPermanentCountry(PatchVariationsCountry(PatchIsGlic(obj).obj).obj).obj

NoReport == [ok |-> FALSE, error |-> "none", content |-> <<>>,
             changed_is_glic |-> FALSE,
             changed_variations_country |-> FALSE,
             changed_variations_permanent_country |-> FALSE]

ReportErr(e) == [NoReport EXCEPT !.error = e]

apply_patches(input) ==
    LET json == FromStr(input)
    IN IF ~json.ok THEN ReportErr("InvalidJson")
       ELSE IF json.v.t # "obj" THEN ReportErr("InvalidJson")
       ELSE LET s3 == PatchIsGlic(json.v.o)
                s4 == PatchVariationsCountry(s3.obj)
                s5 == PatchPermanentCountry(s4.obj)
                text == ToStringPretty(JObj(s5.obj))
            IN IF ~FromStr(text).ok THEN ReportErr("InvalidJson")
               ELSE [ok |-> TRUE, error |-> "none", content |-> text,
                     changed_is_glic |-> s3.changed,
                     changed_variations_country |-> s4.changed,
                     changed_variations_permanent_country |-> s5.changed]

(***************************************************************************)
(* The Process Monitor: is_chrome_running of src/src/platform.rs.          *)
(***************************************************************************)
\* How a pgrep invocation can end: an exit code, a signal, or no spawn.
ExitOutcomes == {"exit0", "exit1", "exit2", "signal", "spawn_fail"}

\* How a tasklist invocation can end: not spawned, a failure status, or a
\* listing that holds "chrome.exe" or does not.
TasklistOutcomes == {"spawn_fail", "nonzero", "listed", "clean"}

\* How a command whose status alone is read can end.
StatusOutcomes == {"success", "nonzero", "signal", "spawn_fail"}

\* A mutant of pgrep_running: an exit code other than 0 is "not found".
pgrep_running_lenient(o) ==
    CASE o = "exit0" -> "running"
      [] o = "spawn_fail" -> "Io"
      [] o = "signal" -> "CommandFailed"
      [] OTHER -> "stopped"

pgrep_running(o) ==
    CASE o = "exit0" -> "running"
      [] o = "exit1" -> "stopped"
      [] o = "spawn_fail" -> "Io"
      [] OTHER -> "CommandFailed"

ProbeInputs(o_s) ==
    CASE o_s = "Linux" -> ExitOutcomes \X ExitOutcomes
      [] o_s = "Macos" -> {<<o>> : o \in ExitOutcomes}
      [] OTHER -> {<<o>> : o \in TasklistOutcomes}

\* The result r of a probe and the number n of lookups it made.
is_chrome_running(o_s, in) ==
    CASE o_s = "Macos" -> [r |-> pgrep_running(in[1]), n |-> 1]
      [] o_s = "Linux" ->
            IF pgrep_running(in[1]) = "running" THEN [r |-> "running", n |-> 1]
            ELSE IF pgrep_running(in[1]) = "stopped"
                 THEN [r |-> pgrep_running(in[2]), n |-> 2]
                 ELSE [r |-> pgrep_running(in[1]), n |-> 1]
      [] OTHER ->
            CASE in[1] = "spawn_fail" -> [r |-> "Io", n |-> 1]
              [] in[1] = "nonzero" -> [r |-> "CommandFailed", n |-> 1]
              [] in[1] = "listed" -> [r |-> "running", n |-> 1]
              [] OTHER -> [r |-> "stopped", n |-> 1]

IsError(r) == r \in {"Io", "CommandFailed"}

(***************************************************************************)
(* The pid set and the signal batch: pgrep_pids and send_signal.           *)
(***************************************************************************)
\* What pgrep can print for one process: a pid, or text that is no number.
PidItems == {ToString(i) : i \in 1..MaxPid} \cup {"x"}

\* item.parse::<i32>()
ParsePid(item) ==
    IF \E i \in 1..MaxPid : ToString(i) = item
    THEN [ok |-> TRUE, pid |-> CHOOSE i \in 1..MaxPid : ToString(i) = item]
    ELSE [ok |-> FALSE, pid |-> 0]

SeqsUpTo(S, n) == UNION {[1..m -> S] : m \in 0..n}

PgrepOutputs ==
    {[code |-> c, items |-> <<>>] : c \in ExitOutcomes \ {"exit0"}}
    \cup {[code |-> "exit0", items |-> s] : s \in SeqsUpTo(PidItems, MaxPidItems)}

\* A mutant of SortSet: the greatest first.
RECURSIVE SortSetDescending(_)
SortSetDescending(S) ==
    IF S = {} THEN <<>>
    ELSE LET m == CHOOSE x \in S : \A y \in S : x >= y
         IN <<m>> \o SortSetDescending(S \ {m})

RECURSIVE SortSet(_)
SortSet(S) ==
    IF S = {} THEN <<>>
    ELSE LET m == CHOOSE x \in S : \A y \in S : x <= y
         IN <<m>> \o SortSet(S \ {m})

RECURSIVE PgrepPidsFrom(_, _)
PgrepPidsFrom(outs, pids) ==
    IF outs = <<>> THEN [r |-> "ok", pids |-> SortSet(pids)]
    ELSE LET out == Head(outs)
         IN CASE out.code = "exit0" ->
                    IF \E i \in DOMAIN out.items : ~ParsePid(out.items[i]).ok
                    THEN [r |-> "CommandFailed", pids |-> <<>>]
                    ELSE PgrepPidsFrom(Tail(outs),
                            pids \cup {ParsePid(out.items[i]).pid :
                                          i \in DOMAIN out.items})
              [] out.code = "exit1" -> PgrepPidsFrom(Tail(outs), pids)
              [] out.code = "spawn_fail" -> [r |-> "Io", pids |-> <<>>]
              [] OTHER -> [r |-> "CommandFailed", pids |-> <<>>]

\* outs: what pgrep gives for "chrome" and for "google-chrome".
pgrep_pids(outs) == PgrepPidsFrom(outs, {})

\* output.status.success() of a stop command, or the spawn's I/O error.
CommandStatus(o) ==
    CASE o = "success" -> "ok"
      [] o = "spawn_fail" -> "Io"
      [] OTHER -> "CommandFailed"

send_signal(pids, o) == IF pids = <<>> THEN "ok" ELSE CommandStatus(o)

(***************************************************************************)
(* The log of what the run did.                                            *)
(*   probe        a: where (gate1, wait1, escalate, wait2, final, gate2),  *)
(*                r: running, stopped, or the error; the probes of one     *)
(*                wait that report running in a row are logged once        *)
(*   stop_call    stop_chrome is entered                                   *)
(*   gather       pgrep_pids; r: ok or the error; p: the pid set           *)
(*   stop         a: quit, taskkill, TERM, KILL; r: ok or the error;       *)
(*                p: the pids signalled                                    *)
(*   wait         a: wait1, wait2; r: stopped, timeout                     *)
(*   stop_return  r: ok or the error stop_chrome returns                   *)
(*   file         a: exists_config, backup, read, write, exists_backup,    *)
(*                restore; r: ok, missing, or the error                    *)
(*   patch        apply_patches; r: ok or the error                        *)
(***************************************************************************)
Ev(e, a, r, p) == [e |-> e, a |-> a, r |-> r, p |-> p]

TIMEOUT_MS == 3000
CHECK_INTERVAL_MS == 300

WaitName(n) == IF n = 1 THEN "wait1" ELSE "wait2"

(***************************************************************************)
(* Files. A failed copy or write leaves its target as it was, or created   *)
(* and cut short.                                                          *)
(***************************************************************************)
Absent == [exists |-> FALSE, text |-> <<>>]
File(text) == [exists |-> TRUE, text |-> text]

WriteOutcomes == {"ok", "fail_untouched", "fail_truncated"}
ReadOutcomes == {"ok", "fail"}

\* The target of fs::copy(from, to) or fs::write(to, from.text) afterwards.
\* A mutant of Written: the copy or write changes nothing.
WrittenNothing(from, to, o) == to

Written(from, to, o) ==
    CASE o = "ok" -> File(from.text)
      [] o = "fail_truncated" -> File(<<>>)
      [] OTHER -> to

IoStatus(o) == IF o = "ok" THEN "ok" ELSE "Io"

(***************************************************************************)
(* Inputs of a run.                                                        *)
(***************************************************************************)
OsNames == {"Macos", "Linux", "Windows", "freebsd"}

Codes == {"cn", "us"}

\* create_test_config of the integration tests.
TestConfig ==
    JObj([k \in {KEY_IS_GLIC, KEY_COUNTRY, KEY_PERMANENT, "profile"} |->
            CASE k = KEY_IS_GLIC -> JBool(FALSE)
              [] k = KEY_COUNTRY -> JStr("cn")
              [] k = KEY_PERMANENT -> JArr(<<JStr("cn")>>)
              [] OTHER -> JObj([n \in {KEY_IS_GLIC} |-> JBool(FALSE)])])

\* "{invalid json}"
InvalidText == <<LBrace, TBad("invalid"), Ws, TBad("json"), RBrace>>

RunTexts ==
    {ToStringCompact(TestConfig),
     ToStringCompact(JObj(EmptyMap)),
     ToStringCompact(JArr(<<JStr("cn")>>)),
     InvalidText}

OldBackupText == ToStringCompact(JObj([k \in {KEY_COUNTRY} |-> JStr("de")]))

(***************************************************************************)
(* The Platform Resolver: current_os and chrome_state_path.                *)
(***************************************************************************)
current_os(name) ==
    IF name \in {"Macos", "Linux", "Windows"} THEN "ok" ELSE "UnsupportedOs"

\* The environments of a run: neither variable set, or one of the two.
EnvSets == {{}, {"HOME"}, {"LOCALAPPDATA"}}

\* The variable std::env::var is asked for.
RequiredEnv(o_s) == IF o_s = "Windows" THEN "LOCALAPPDATA" ELSE "HOME"

\* A mutant of chrome_state_path: a variable that is not set is defaulted.
chrome_state_path_defaulting(o_s, env) == "ok"

\* env: the variables that are set.
chrome_state_path(o_s, env) ==
    IF RequiredEnv(o_s) \in env THEN "ok" ELSE "MissingEnv"

(***************************************************************************)
(* The run: main, run, ensure_chrome_not_running, stop_chrome,             *)
(* wait_for_process_stop, restore_from_backup, apply_patches_workflow.     *)
(***************************************************************************)
Init ==
    /\ os \in OsNames
    /\ kill_chrome \in BOOLEAN
    /\ restore \in BOOLEAN
    /\ envSet \in EnvSets
    /\ pc = "start"
    /\ err = "none"
    /\ exitCode = -1
    /\ live \in {Absent} \cup {File(t) : t \in RunTexts}
    /\ backup \in {Absent, File(OldBackupText)}
    /\ live0 = live
    /\ backup0 = backup
    /\ waitNo = 0
    /\ elapsed = 0
    /\ attempts = 0
    /\ content = <<>>
    /\ report = NoReport
    /\ report0 = NoReport
    /\ trace = <<>>
    /\ history = <<>>

\* The part of the state the gate and the Terminator change.
Cur == [pc |-> pc, err |-> err, waitNo |-> waitNo, elapsed |-> elapsed,
        attempts |-> attempts, trace |-> trace]

Step(s) ==
    /\ pc' = s.pc
    /\ err' = s.err
    /\ waitNo' = s.waitNo
    /\ elapsed' = s.elapsed
    /\ attempts' = s.attempts
    /\ trace' = s.trace
    /\ UNCHANGED <<os, kill_chrome, restore, envSet, exitCode, live, backup,
                   live0, backup0, content, report, report0, history>>

\* run() returns: Ok(()) when e is "none", the error otherwise.
Return(s, e) == [s EXCEPT !.pc = "returned", !.err = e]

Log(s, e) == [s EXCEPT !.trace = Append(s.trace, e)]

\* A probe made at place a that gave r.
Probed(s, a, r) == Log(s, Ev("probe", a, r, <<>>))

\* A probe of the wait under way that gave r. The probes of one wait that
\* report running one after the other are logged once.
WaitProbed(s, a, r) ==
    IF r = "running" /\ s.trace # <<>>
          /\ s.trace[Len(s.trace)] = Ev("probe", a, r, <<>>)
    THEN s
    ELSE Probed(s, a, r)

\* wait_for_process_stop is left: its start and attempts are no more.
WaitLeft(s) == [s EXCEPT !.waitNo = 0, !.elapsed = 0, !.attempts = 0]

\* What the probes of the run's OS can give.
ProbeResults == {is_chrome_running(os, in).r : in \in ProbeInputs(os)}

LogAll(s, evs) == [s EXCEPT !.trace = s.trace \o evs]

\* The probes a step can make: the result r, and what is logged of the
\* lookups made for it (nothing).
Probes == {[lookups |-> <<>>, r |-> r] : r \in ProbeResults}

WorkStart == IF restore THEN "restore" ELSE "check_config"

\* run, lines 30-41: the OS, the configuration path, the backup path.
Resolve ==
    /\ pc = "start"
    /\ Step(IF current_os(os) # "ok" THEN Return(Cur, current_os(os))
            ELSE IF chrome_state_path(os, envSet) # "ok"
                 THEN Return(Cur, chrome_state_path(os, envSet))
                 ELSE [Cur EXCEPT !.pc = "gate1"])

\* A mutant of EnsureFirst: the kill flag is not looked at.
EnsureFirstAlwaysStops(r, kill) ==
    CASE IsError(r) -> r
      [] r = "running" -> "stop"
      [] OTHER -> "proceed"

\* ensure_chrome_not_running, line 67 and its branches: what follows the
\* first probe's result r.
EnsureFirst(r, kill) ==
    CASE IsError(r) -> r
      [] r = "running" -> IF kill THEN "stop" ELSE "ChromeRunning"
      [] OTHER -> "proceed"

Gate1With(P) ==
    /\ pc = "gate1"
    /\ \E p \in P :
          LET s == Probed(LogAll(Cur, p.lookups), "gate1", p.r)
              d == EnsureFirst(p.r, kill_chrome)
          IN Step(CASE d = "stop" ->
                          [Log(s, Ev("stop_call", "", "", <<>>))
                              EXCEPT !.pc = "stop_action"]
                    [] d = "proceed" -> [s EXCEPT !.pc = WorkStart]
                    [] OTHER -> Return(s, d))

Gate1 == Gate1With(Probes)


\* stop_chrome returns r; ensure_chrome_not_running, line 70, passes an
\* error on and goes on to its second probe otherwise.
StopReturns(s, r) ==
    LET s1 == WaitLeft(Log(s, Ev("stop_return", "", r, <<>>)))
    IN IF r = "ok" THEN [s1 EXCEPT !.pc = "gate2"] ELSE Return(s1, r)

BeginWait(s, n) ==
    [s EXCEPT !.pc = "wait", !.waitNo = n, !.elapsed = 0, !.attempts = 0]

\* A mutant of AfterStopAction: the stop command's status is not looked at.
AfterStopActionIgnoringStatus(s, st) == BeginWait(s, 1)

\* stop_chrome, lines 127-133, 138-141, 147: after the platform's stop
\* action ended with status st.
AfterStopAction(s, st) ==
    IF st = "ok" THEN BeginWait(s, 1) ELSE StopReturns(s, st)

\* What pgrep_pids can give: ok with the pid set, or the error.
GatherResults == {pgrep_pids(outs) : outs \in PgrepOutputs \X PgrepOutputs}

\* The pid sets a step can gather: the result g of pgrep_pids, and what is
\* logged of the lookups made for it (nothing).
Gathers == {[lookups |-> <<>>, g |-> g] : g \in GatherResults}

\* A mutant of NothingToStop: an empty pid set is not looked for.
NothingToStopNever(pids) == FALSE

\* stop_chrome, line 144: pids.is_empty()
NothingToStop(pids) == pids = <<>>

\* stop_chrome, lines 122-149: the platform's stop action.
StopActionWith(G) ==
    /\ pc = "stop_action"
    /\ CASE os = "Macos" ->
              \E o \in StatusOutcomes :
                 Step(AfterStopAction(
                         Log(Cur, Ev("stop", "quit", CommandStatus(o), <<>>)),
                         CommandStatus(o)))
         [] os = "Windows" ->
              \E o \in StatusOutcomes :
                 Step(AfterStopAction(
                         Log(Cur, Ev("stop", "taskkill", CommandStatus(o), <<>>)),
                         CommandStatus(o)))
         [] OTHER ->
              \E x \in G :
                 LET g == x.g
                     s1 == Log(LogAll(Cur, x.lookups),
                               Ev("gather", "TERM", g.r, g.pids))
                 IN IF g.r # "ok" THEN Step(StopReturns(s1, g.r))
                    ELSE IF NothingToStop(g.pids) THEN Step(StopReturns(s1, "ok"))
                    ELSE \E o \in StatusOutcomes :
                            LET st == send_signal(g.pids, o)
                            IN Step(AfterStopAction(
                                       IF g.pids = <<>> THEN s1
                                       ELSE Log(s1, Ev("stop", "TERM", st, g.pids)),
                                       st))

StopAction == StopActionWith(Gathers)


\* Where stop_chrome goes on after a wait that returned Ok.
AfterWait(n) == IF n = 1 THEN "escalate" ELSE "final"

\* A mutant of Slept: the sleep lasts half the interval.
SleptHalf(e, slack) == e + (CHECK_INTERVAL_MS \div 2) * (1 + slack)

\* start.elapsed() after thread::sleep(check_interval), line 189, e being
\* what it was at the loop's test: the sleep lasts the interval at least.
Slept(e, slack) == e + CHECK_INTERVAL_MS * (1 + slack)

\* wait_for_process_stop, lines 182-189: one turn of the loop.
WaitProbe ==
    /\ pc = "wait"
    /\ elapsed < TIMEOUT_MS
    /\ \E r \in ProbeResults, slack \in 0..MaxSlack :
          LET s == [WaitProbed(Cur, WaitName(waitNo), r)
                       EXCEPT !.attempts = attempts + 1]
          IN Step(CASE IsError(r) -> StopReturns(s, r)
                    [] r = "stopped" ->
                          [WaitLeft(Log(s, Ev("wait", WaitName(waitNo),
                                              "stopped", <<>>)))
                              EXCEPT !.pc = AfterWait(waitNo)]
                    [] OTHER ->
                          [s EXCEPT !.elapsed = Slept(elapsed, slack)])

\* A mutant of OnWaitTimeout: the stop action is made again.
OnWaitTimeoutRetrying(s, n) == [WaitLeft(s) EXCEPT !.pc = "stop_action"]

\* What stop_chrome does with the wait's Err(ChromeStillRunning): the ? of
\* lines 152 and 161 returns it.
OnWaitTimeout(s, n) == StopReturns(s, "ChromeStillRunning")

\* wait_for_process_stop, lines 182, 191-192: the budget is used up.
WaitTimeout ==
    /\ pc = "wait"
    /\ elapsed >= TIMEOUT_MS
    /\ Step(OnWaitTimeout(
               Log(Cur, Ev("wait", WaitName(waitNo), "timeout", <<>>)), waitNo))

\* A mutant of EscalationEntered: Linux always escalates.
EscalationAlways(r) == TRUE

\* stop_chrome, line 155: whether the escalation is entered, r being the
\* probe's result.
EscalationEntered(r) == r = "running"

\* stop_chrome, lines 155-162: the Linux escalation.
EscalateWith(P, G) ==
    /\ pc = "escalate"
    /\ IF os # "Linux" THEN Step([Cur EXCEPT !.pc = "final"])
       ELSE \E p \in P :
               LET r == p.r
                   s == Probed(LogAll(Cur, p.lookups), "escalate", r)
               IN IF IsError(r) THEN Step(StopReturns(s, r))
                  ELSE IF ~EscalationEntered(r) THEN Step([s EXCEPT !.pc = "final"])
                  ELSE \E x \in G :
                          LET g == x.g
                              s1 == Log(LogAll(s, x.lookups),
                                        Ev("gather", "KILL", g.r, g.pids))
                          IN IF g.r # "ok" THEN Step(StopReturns(s1, g.r))
                             ELSE IF g.pids = <<>> THEN Step(BeginWait(s1, 2))
                             ELSE \E o \in StatusOutcomes :
                                     LET st == send_signal(g.pids, o)
                                         s2 == Log(s1, Ev("stop", "KILL", st, g.pids))
                                     IN Step(IF st # "ok" THEN StopReturns(s2, st)
                                             ELSE BeginWait(s2, 2))

Escalate == EscalateWith(Probes, Gathers)


\* stop_chrome, lines 164-168: the result, from the last probe's result r.
StopResult(r) ==
    CASE IsError(r) -> r
      [] r = "running" -> "ChromeStillRunning"
      [] OTHER -> "ok"

FinalProbe ==
    /\ pc = "final"
    /\ \E r \in ProbeResults :
          Step(StopReturns(Probed(Cur, "final", r), StopResult(r)))

\* A mutant of EnsureSecond: stop_chrome's Ok is trusted, the probe ignored.
EnsureSecondTrusting(r) == IF IsError(r) THEN r ELSE "proceed"

\* ensure_chrome_not_running, lines 71-75: after stop_chrome returned Ok.
EnsureSecond(r) ==
    CASE IsError(r) -> r
      [] r = "running" -> "ChromeStillRunning"
      [] OTHER -> "proceed"

Gate2 ==
    /\ pc = "gate2"
    /\ \E r \in ProbeResults :
          LET s == Probed(Cur, "gate2", r)
              d == EnsureSecond(r)
          IN Step(IF d = "proceed" THEN [s EXCEPT !.pc = WorkStart]
                  ELSE Return(s, d))

\* A step of the work after the gate: the run's position and error, the
\* files, the text read and the report.
Work(npc, e, ev, nlive, nbackup, ncontent, nreport) ==
    /\ pc' = npc
    /\ err' = e
    /\ trace' = Append(trace, ev)
    /\ live' = nlive
    /\ backup' = nbackup
    /\ content' = ncontent
    /\ report' = nreport
    /\ UNCHANGED <<os, kill_chrome, restore, envSet, exitCode, live0, backup0,
                   waitNo, elapsed, attempts, report0, history>>

\* A mutant of BackupMissing: the backup's existence is not checked.
BackupMissingNever(b) == FALSE

\* restore_from_backup, line 88: !backup_path.exists()
BackupMissing(b) == ~b.exists

\* restore_from_backup, lines 87-98.
RestoreFromBackup ==
    /\ pc = "restore"
    /\ IF BackupMissing(backup)
       THEN Work("returned", "BackupNotFound",
                 Ev("file", "exists_backup", "missing", <<>>),
                 live, backup, content, report)
       ELSE \E o \in WriteOutcomes :
               Work("returned", IF o = "ok" THEN "none" ELSE "Io",
                    Ev("file", "restore", IoStatus(o), <<>>),
                    Written(backup, live, o), backup, content, report)

\* A mutant of ConfigMissing: the file's existence is not checked.
ConfigMissingNever(l) == FALSE

\* apply_patches_workflow, line 103: !chrome_state.exists()
ConfigMissing(l) == ~l.exists

\* apply_patches_workflow, lines 103-106.
CheckConfig ==
    /\ pc = "check_config"
    /\ IF ConfigMissing(live)
       THEN Work("returned", "ConfigNotFound",
                 Ev("file", "exists_config", "missing", <<>>),
                 live, backup, content, report)
       ELSE Work("backup", err, Ev("file", "exists_config", "ok", <<>>),
                 live, backup, content, report)

\* A mutant of AfterBackup: a failed backup copy does not end the run.
AfterBackupIgnoringFailure(st) == "read"

\* apply_patches_workflow, lines 110-111: where the run goes after the
\* backup copy ended with status st.
AfterBackup(st) == IF st = "ok" THEN "read" ELSE "returned"

\* apply_patches_workflow, lines 109-112.
Backup ==
    /\ pc = "backup"
    /\ \E o \in WriteOutcomes :
          Work(AfterBackup(IoStatus(o)), IF o = "ok" THEN err ELSE "Io",
               Ev("file", "backup", IoStatus(o), <<>>),
               live, Written(live, backup, o), content, report)

\* apply_patches_workflow, lines 115-118.
Read ==
    /\ pc = "read"
    /\ \E o \in ReadOutcomes :
          IF o = "ok"
          THEN Work("patch", err, Ev("file", "read", "ok", <<>>),
                    live, backup, live.text, report)
          ELSE Work("returned", "Io", Ev("file", "read", "Io", <<>>),
                    live, backup, content, report)

\* A mutant of AfterPatch: a rejected document does not end the run.
AfterPatchIgnoringError(ok) == "write"

\* apply_patches_workflow, line 121: where the run goes after apply_patches.
AfterPatch(ok) == IF ok THEN "write" ELSE "returned"

\* What apply_patches returns for each document a run can start from.
RunReports == [t \in RunTexts |-> apply_patches(t)]

\* let report = apply_patches(&content), line 121; for the documents of a
\* run the result is looked up in RunReports.
PatchReport(text) ==
    IF text \in DOMAIN RunReports THEN RunReports[text] ELSE apply_patches(text)

\* apply_patches_workflow, lines 120-124.
Patch ==
    /\ pc = "patch"
    /\ LET rep == PatchReport(content)
       IN Work(AfterPatch(rep.ok), IF rep.ok THEN err ELSE rep.error,
               Ev("patch", "", IF rep.ok THEN "ok" ELSE rep.error, <<>>),
               live, backup, content, rep)

\* apply_patches_workflow, lines 126-131.
Write ==
    /\ pc = "write"
    /\ \E o \in WriteOutcomes :
          Work("returned", IF o = "ok" THEN "none" ELSE "Io",
               Ev("file", "write", IoStatus(o), <<>>),
               Written(File(report.content), live, o), backup, content, report)

\* A mutant of ExitStatus: the process ends with status zero whatever
\* run() returned.
ExitStatusAlwaysZero(e) == 0

\* main, lines 23-26: exit(1) on Err, the end of main otherwise.
ExitStatus(e) == IF e = "none" THEN 0 ELSE 1

\* main, lines 23-26.
Exit ==
    /\ pc = "returned"
    /\ pc' = "exited"
    /\ exitCode' = ExitStatus(err)
    /\ UNCHANGED <<os, kill_chrome, restore, envSet, err, live, backup, live0,
                   backup0, waitNo, elapsed, attempts, content, report, report0,
                   trace, history>>

Next ==
    \/ Resolve
    \/ Gate1
    \/ StopAction
    \/ WaitProbe
    \/ WaitTimeout
    \/ Escalate
    \/ FinalProbe
    \/ Gate2
    \/ RestoreFromBackup
    \/ CheckConfig
    \/ Backup
    \/ Read
    \/ Patch
    \/ Write
    \/ Exit

Spec == Init /\ [][Next]_vars

\* The process keeps running while it has a step to take: every external
\* command it waits for returns.
FairSpec == Spec /\ WF_vars(Next)

(***************************************************************************)
(* The Patch Engine on its own: apply_patches over a bounded set of        *)
(* documents, taken up where a patch-mode run has read the file.           *)
(***************************************************************************)
Scalars == {JNull, JBool(TRUE), JBool(FALSE), JNum(1), JStr("us"), JStr("false")}

Arrays == {JArr(a) : a \in SeqsUpTo({JStr(c) : c \in Codes}, MaxArrLen)}

NestedObjects ==
    {JObj(EmptyMap),
     JObj([k \in {KEY_IS_GLIC} |-> JBool(FALSE)]),
     JObj([k \in {KEY_COUNTRY, KEY_PERMANENT} |->
             IF k = KEY_COUNTRY THEN JStr("cn") ELSE JArr(<<JStr("cn")>>)])}

Values == Scalars \cup Arrays \cup NestedObjects

ProfileValues ==
    {JStr("Test Profile"),
     JObj([k \in {KEY_IS_GLIC} |-> JBool(FALSE)]),
     JObj([k \in {"profile"} |->
             JObj([n \in {KEY_COUNTRY, KEY_PERMANENT} |->
                     IF n = KEY_COUNTRY THEN JStr("cn")
                     ELSE JArr(<<JStr("cn")>>)])]),
     JArr(<<JObj([k \in {KEY_IS_GLIC} |-> JBool(FALSE)])>>)}

\* ["cn","us"] of the test handles_array_variations_country.
CountryArray == JArr(<<JStr("cn"), JStr("us")>>)

\* The values a document holds under key k: every value under the key
\* whose array is looked at, and values of every type under the others.
ValuesOf(k) ==
    CASE k = "profile" -> ProfileValues
      [] k = KEY_PERMANENT -> Values
      [] OTHER -> Scalars \cup NestedObjects \cup {CountryArray}

PatchObjects ==
    UNION {{o \in [K -> Values \cup ProfileValues] :
               \A k \in K : o[k] \in ValuesOf(k)} :
           K \in SUBSET {KEY_IS_GLIC, KEY_COUNTRY, KEY_PERMANENT, "profile"}}

\* Texts that are no JSON, or whose root is no object.
RejectedTexts ==
    {InvalidText,
     <<>>,
     <<LBrace, TStr(KEY_IS_GLIC), Colon, TLit("false")>>,
     <<LBrace, TStr(KEY_IS_GLIC), Colon, TLit("false"), RBrace, RBrace>>,
     <<LBrace, TStr(KEY_IS_GLIC), Colon, TLit("false"), Comma, RBrace>>}
    \cup {ToStringCompact(v) : v \in Scalars \cup Arrays}

PatchInputs == {ToStringCompact(JObj(o)) : o \in PatchObjects} \cup RejectedTexts

PatchInit ==
    /\ os = "Linux"
    /\ kill_chrome = FALSE
    /\ restore = FALSE
    /\ envSet = {"HOME"}
    /\ pc = "patch"
    /\ err = "none"
    /\ exitCode = -1
    /\ content \in PatchInputs
    /\ live = File(content)
    /\ backup = File(content)
    /\ live0 = live
    /\ backup0 = backup
    /\ waitNo = 0
    /\ elapsed = 0
    /\ attempts = 0
    /\ report = NoReport
    /\ report0 = NoReport
    /\ trace = <<Ev("probe", "gate1", "stopped", <<>>),
                 Ev("file", "exists_config", "ok", <<>>),
                 Ev("file", "backup", "ok", <<>>),
                 Ev("file", "read", "ok", <<>>)>>
    /\ history = <<>>

Applications == Cardinality({i \in DOMAIN trace : trace[i].e = "patch"})

\* apply_patches is called again, on the content the call before returned.
Repatch ==
    /\ pc = "write"
    /\ Applications < MaxApply
    /\ pc' = "patch"
    /\ content' = report.content
    /\ report0' = report
    /\ UNCHANGED <<os, kill_chrome, restore, envSet, err, exitCode, live,
                   backup, live0, backup0, waitNo, elapsed, attempts, report,
                   trace, history>>

PatchNext ==
    \/ Patch
    \/ Repatch

PatchSpec == PatchInit /\ [][PatchNext]_vars

(***************************************************************************)
(* The Monitor and the pid set with their lookups in the log: the first    *)
(* probe of a run and the TERM batch, and the probe and the KILL batch of  *)
(* a Linux run whose first wait saw the application stopped.               *)
(*   lookup       a: the name looked up; r: how the command ended;         *)
(*                p: the items it printed                                  *)
(***************************************************************************)
\* The names is_chrome_running looks up, in order.
ProbeNames(o_s) ==
    CASE o_s = "Linux" -> <<"chrome", "google-chrome">>
      [] o_s = "Macos" -> <<"Google Chrome">>
      [] OTHER -> <<"chrome.exe">>

\* The names stop_chrome gives to pgrep_pids.
PidNames == <<"chrome", "google-chrome">>

\* The lookups is_chrome_running makes when the commands end as in says.
NameLookups(o_s, in) ==
    [i \in 1..is_chrome_running(o_s, in).n |->
        Ev("lookup", ProbeNames(o_s)[i], in[i], <<>>)]

LoggedProbes ==
    {[lookups |-> NameLookups(os, in), r |-> is_chrome_running(os, in).r] :
        in \in ProbeInputs(os)}

\* How many of the names pgrep_pids looks up: it returns at the first
\* lookup that fails or prints what is no number.
RECURSIVE PgrepLookupsMade(_)
PgrepLookupsMade(outs) ==
    IF outs = <<>> THEN 0
    ELSE LET out == Head(outs)
         IN IF \/ out.code \notin {"exit0", "exit1"}
               \/ /\ out.code = "exit0"
                  /\ \E i \in DOMAIN out.items : ~ParsePid(out.items[i]).ok
            THEN 1
            ELSE 1 + PgrepLookupsMade(Tail(outs))

PidLookups(outs) ==
    [i \in 1..PgrepLookupsMade(outs) |->
        Ev("lookup", PidNames[i], outs[i].code, outs[i].items)]

LoggedGathers ==
    {[lookups |-> PidLookups(outs), g |-> pgrep_pids(outs)] :
        outs \in PgrepOutputs \X PgrepOutputs}

\* A Linux run with the kill flag up to the end of its first wait.
StoppedInFirstWait ==
    <<Ev("lookup", "chrome", "exit0", <<>>),
      Ev("probe", "gate1", "running", <<>>),
      Ev("stop_call", "", "", <<>>),
      Ev("lookup", "chrome", "exit0", <<"1">>),
      Ev("lookup", "google-chrome", "exit1", <<>>),
      Ev("gather", "TERM", "ok", <<1>>),
      Ev("stop", "TERM", "ok", <<1>>),
      Ev("lookup", "chrome", "exit1", <<>>),
      Ev("lookup", "google-chrome", "exit1", <<>>),
      Ev("probe", "wait1", "stopped", <<>>),
      Ev("wait", "wait1", "stopped", <<>>)>>

LookupInit ==
    /\ os \in {"Macos", "Linux", "Windows"}
    /\ kill_chrome = TRUE
    /\ restore = FALSE
    /\ envSet = {RequiredEnv(os)}
    /\ \/ pc = "gate1" /\ trace = <<>>
       \/ os = "Linux" /\ pc = "escalate" /\ trace = StoppedInFirstWait
    /\ err = "none"
    /\ exitCode = -1
    /\ live = File(ToStringCompact(TestConfig))
    /\ backup = Absent
    /\ live0 = live
    /\ backup0 = backup
    /\ waitNo = 0
    /\ elapsed = 0
    /\ attempts = 0
    /\ content = <<>>
    /\ report = NoReport
    /\ report0 = NoReport
    /\ history = <<>>

LookupGate1 == Gate1With(LoggedProbes)

LookupStopAction == StopActionWith(LoggedGathers)

LookupEscalate == EscalateWith(LoggedProbes, LoggedGathers)

LookupNext ==
    \/ LookupGate1
    \/ LookupStopAction
    \/ LookupEscalate

LookupSpec == LookupInit /\ [][LookupNext]_vars

(***************************************************************************)
(* Runs one after the other on the same two files, without the kill flag   *)
(* on one operating system: each run starts when the one before has        *)
(* exited, in the mode its command line asks for.                          *)
(***************************************************************************)
\* What is kept of a run: its mode, the two files as it found them, and
\* what it did.
RunOf(mode, l0, b0, t) ==
    [restore |-> mode, live0 |-> l0, backup0 |-> b0, trace |-> t]

RunsInit ==
    /\ os = "Linux"
    /\ kill_chrome = FALSE
    /\ restore \in BOOLEAN
    /\ envSet = {"HOME"}
    /\ pc = "start"
    /\ err = "none"
    /\ exitCode = -1
    /\ live \in {File(t) : t \in RunTexts}
    /\ backup \in {Absent, File(OldBackupText)}
    /\ live0 = live
    /\ backup0 = backup
    /\ waitNo = 0
    /\ elapsed = 0
    /\ attempts = 0
    /\ content = <<>>
    /\ report = NoReport
    /\ report0 = NoReport
    /\ trace = <<>>
    /\ history = <<>>

\* main, lines 17-27, run anew: the command line is parsed again and the
\* files are those the run before has left.
NewRun ==
    /\ pc = "exited"
    /\ Len(history) + 1 < MaxRuns
    /\ history' = Append(history, RunOf(restore, live0, backup0, trace))
    /\ restore' \in BOOLEAN
    /\ pc' = "start"
    /\ err' = "none"
    /\ exitCode' = -1
    /\ live0' = live
    /\ backup0' = backup
    /\ waitNo' = 0
    /\ elapsed' = 0
    /\ attempts' = 0
    /\ content' = <<>>
    /\ report' = NoReport
    /\ report0' = NoReport
    /\ trace' = <<>>
    /\ UNCHANGED <<os, kill_chrome, envSet, live, backup>>

RunsNext ==
    \/ Resolve
    \/ Gate1
    \/ RestoreFromBackup
    \/ CheckConfig
    \/ Backup
    \/ Read
    \/ Patch
    \/ Write
    \/ Exit
    \/ NewRun

RunsSpec == RunsInit /\ [][RunsNext]_vars

(***************************************************************************)
(* Reading the log.                                                        *)
(***************************************************************************)
IsProbe(e, r) == e.e = "probe" /\ e.r = r
IsFile(e, a, r) == e.e = "file" /\ e.a = a /\ e.r = r
IsStopRequest(e) == e.e = "stop"
IsWait(e, a, r) == e.e = "wait" /\ e.a = a /\ e.r = r
RunEnded == pc \in {"returned", "exited"}

(***************************************************************************)
(* C1. Every file operation on the configuration file or its backup comes  *)
(* after a probe that reported not-running, with no stop request and no    *)
(* probe reporting running between that probe and the file operation.      *)
(***************************************************************************)
C1_FilesOnlyBehindGate ==
    \A i \in DOMAIN trace :
        trace[i].e = "file" =>
            \E j \in 1..(i - 1) :
                /\ IsProbe(trace[j], "stopped")
                /\ \A k \in (j + 1)..(i - 1) :
                      /\ ~IsStopRequest(trace[k])
                      /\ ~IsProbe(trace[k], "running")

\* A run that stopped the application and then wrote the patched file.
C1_Witness ==
    /\ pc = "exited"
    /\ \E i \in DOMAIN trace :
          /\ IsStopRequest(trace[i]) /\ trace[i].r = "ok"
          /\ i < Len(trace)
    /\ trace # <<>>
    /\ IsFile(trace[Len(trace)], "write", "ok")

(***************************************************************************)
(* C2. In a patch-mode run the live file is written only after the backup  *)
(* copy of the same run succeeded, the backup then holds the live file's   *)
(* content, and a failed backup copy ends the run with the live file as    *)
(* it was.                                                                 *)
(***************************************************************************)
C2_BackupBeforeWrite ==
    /\ \A i \in DOMAIN trace :
          (trace[i].e = "file" /\ trace[i].a = "write") =>
              \E j \in 1..(i - 1) : IsFile(trace[j], "backup", "ok")
    /\ (\E j \in DOMAIN trace : IsFile(trace[j], "backup", "ok")) =>
          backup = File(live0.text)
    /\ \A i \in DOMAIN trace :
          (trace[i].e = "file" /\ trace[i].a = "backup" /\ trace[i].r # "ok") =>
              /\ i = Len(trace)
              /\ RunEnded
              /\ err # "none"
              /\ live = live0

\* A patch-mode run that changed the live file, its backup holding the old one.
C2_Witness ==
    /\ pc = "exited"
    /\ trace # <<>>
    /\ IsFile(trace[Len(trace)], "write", "ok")
    /\ live # live0
    /\ backup = live0

(***************************************************************************)
(* C3. On Linux, when the first wait's budget is used up with the Monitor  *)
(* still reporting running, stop_chrome gathers the pids again (and sends  *)
(* KILL, and waits again) before it returns.                               *)
(***************************************************************************)
C3_EscalatesAfterTimeout ==
    \A i \in DOMAIN trace, j \in DOMAIN trace :
        (/\ os = "Linux"
         /\ IsWait(trace[i], "wait1", "timeout")
         /\ i < j
         /\ trace[j].e = "stop_return") =>
            \E k \in (i + 1)..(j - 1) :
                trace[k].e = "gather" /\ trace[k].a = "KILL"

(***************************************************************************)
(* C4. A wait whose budget is used up is not what makes stop_chrome        *)
(* return: stop_chrome goes on to its next phase.                          *)
(***************************************************************************)
C4_TimeoutIsNotFatal ==
    \A i \in DOMAIN trace :
        (trace[i].e = "wait" /\ trace[i].r = "timeout" /\ i < Len(trace)) =>
            trace[i + 1].e # "stop_return"

(***************************************************************************)
(* C5. stop_chrome fails with the still-running error exactly when its     *)
(* final probe, made after all phases, reports running, and succeeds when  *)
(* that probe reports not-running.                                         *)
(***************************************************************************)
C5_ResultFromFinalProbe ==
    \A j \in DOMAIN trace :
        trace[j].e = "stop_return" =>
            /\ trace[j].r = "ChromeStillRunning" <=>
                  (trace[j - 1].e = "probe" /\ trace[j - 1].a = "final"
                      /\ trace[j - 1].r = "running")
            /\ (trace[j - 1].e = "probe" /\ trace[j - 1].a = "final"
                   /\ trace[j - 1].r = "stopped") => trace[j].r = "ok"

(***************************************************************************)
(* C6. If the first stop request was issued and the Monitor reports        *)
(* not-running at a probe of the first wait and at every probe after it,   *)
(* stop_chrome returns success and nothing of the escalation is done.      *)
(***************************************************************************)
C6_StoppedInFirstWait ==
    \A i \in DOMAIN trace, j \in DOMAIN trace :
        (/\ IsWait(trace[i], "wait1", "stopped")
         /\ i < j
         /\ trace[j].e = "stop_return"
         /\ \A k \in (i + 1)..(j - 1) :
               trace[k].e = "probe" => trace[k].r = "stopped") =>
            /\ trace[j].r = "ok"
            /\ \E k \in 1..(i - 1) : IsStopRequest(trace[k]) /\ trace[k].r = "ok"
            /\ \A k \in DOMAIN trace :
                  /\ trace[k].a # "KILL"
                  /\ trace[k].a # "wait2"

\* Linux: TERM, some probes of the first wait report running, then stopped.
C6_Witness ==
    /\ os = "Linux"
    /\ \E i \in DOMAIN trace :
          /\ i > 1
          /\ IsWait(trace[i], "wait1", "stopped")
          /\ \E k \in 1..(i - 1) : IsProbe(trace[k], "running") /\ trace[k].a = "wait1"
    /\ trace[Len(trace)].e = "stop_return"
    /\ trace[Len(trace)].r = "ok"

(***************************************************************************)
(* C7. stop_chrome is entered only with the kill flag set and right after  *)
(* a probe that reported running; a probe reporting running without the    *)
(* kill flag ends the run with the target-application-running error, no    *)
(* stop request made and no file touched.                                  *)
(***************************************************************************)
C7_TerminatorOnlyOnKillFlag ==
    /\ \A i \in DOMAIN trace :
          trace[i].e \in {"stop_call", "gather", "stop"} =>
              /\ kill_chrome
              /\ \E c \in 2..i :
                    trace[c].e = "stop_call" /\ IsProbe(trace[c - 1], "running")
    /\ (/\ ~kill_chrome
        /\ \E i \in DOMAIN trace : IsProbe(trace[i], "running")) =>
          /\ RunEnded
          /\ err = "ChromeRunning"
          /\ Len(trace) = 1

\* The application runs and the kill flag is not set.
C7_Witness ==
    /\ pc = "exited"
    /\ ~kill_chrome
    /\ err = "ChromeRunning"
    /\ exitCode = 1

(***************************************************************************)
(* C8. A stop action that fails (a non-zero exit or a signal) makes        *)
(* stop_chrome return the command-execution error at once: no wait, no     *)
(* probe and no escalation follow, and the error is not still-running.     *)
(***************************************************************************)
C8_FailedStopActionReturns ==
    \A i \in DOMAIN trace :
        (IsStopRequest(trace[i]) /\ trace[i].r = "CommandFailed") =>
            /\ Len(trace) = i + 1
            /\ trace[i + 1].e = "stop_return"
            /\ trace[i + 1].r = "CommandFailed"
            /\ RunEnded
            /\ err = "CommandFailed"

\* The first stop action of some platform fails.
C8_Witness ==
    /\ pc = "exited"
    /\ \E i \in DOMAIN trace :
          /\ IsStopRequest(trace[i])
          /\ trace[i].a \in {"quit", "taskkill", "TERM"}
          /\ trace[i].r = "CommandFailed"

(***************************************************************************)
(* C9, as stated. A patch-mode run that ends with an error leaves the      *)
(* live file's content as it was when the run started.                     *)
(***************************************************************************)
C9_AnyErrorLeavesLiveFile ==
    (~restore /\ RunEnded /\ err # "none") => live = live0

(***************************************************************************)
(* C9, amended. A patch-mode run that ends with an error other than a      *)
(* failure of the final write leaves the live file's content as it was;    *)
(* the write is the last step, made after the existence check, the backup, *)
(* the read and the patch all succeeded.                                   *)
(***************************************************************************)
C9_ErrorBeforeWriteLeavesLiveFile ==
    /\ (/\ ~restore
        /\ RunEnded
        /\ err # "none"
        /\ ~(trace # <<>> /\ IsFile(trace[Len(trace)], "write", "Io"))) =>
          live = live0
    /\ \A i \in DOMAIN trace :
          (trace[i].e = "file" /\ trace[i].a = "write") =>
              /\ i = Len(trace)
              /\ i > 4
              /\ IsFile(trace[i - 4], "exists_config", "ok")
              /\ IsFile(trace[i - 3], "backup", "ok")
              /\ IsFile(trace[i - 2], "read", "ok")
              /\ trace[i - 1].e = "patch" /\ trace[i - 1].r = "ok"
    /\ (~restore /\ live # live0) =>
          trace # <<>> /\ trace[Len(trace)].e = "file"
                       /\ trace[Len(trace)].a = "write"

\* The document is rejected after the backup was made.
C9_Witness ==
    /\ pc = "exited"
    /\ ~restore
    /\ err = "InvalidJson"
    /\ backup = live0
    /\ live = live0

(***************************************************************************)
(* C10. For a JSON object, apply_patches sets the root's is_glic_eligible  *)
(* to true and reports changed_is_glic exactly when the key is there with  *)
(* a boolean value; an absent key is not created and a value of another    *)
(* type is kept, changed_is_glic being false in both cases.                *)
(***************************************************************************)
C10_IsGlicGuard ==
    LET in == FromStr(content)
        out == FromStr(report.content)
    IN (pc # "patch" /\ in.ok /\ in.v.t = "obj") =>
          /\ report.ok
          /\ out.ok /\ out.v.t = "obj"
          /\ IF KEY_IS_GLIC \in DOMAIN in.v.o /\ in.v.o[KEY_IS_GLIC].t = "bool"
             THEN /\ report.changed_is_glic
                  /\ KEY_IS_GLIC \in DOMAIN out.v.o
                  /\ out.v.o[KEY_IS_GLIC] = JBool(TRUE)
             ELSE /\ ~report.changed_is_glic
                  /\ IF KEY_IS_GLIC \in DOMAIN in.v.o
                     THEN /\ KEY_IS_GLIC \in DOMAIN out.v.o
                          /\ out.v.o[KEY_IS_GLIC] = in.v.o[KEY_IS_GLIC]
                     ELSE KEY_IS_GLIC \notin DOMAIN out.v.o

\* {"is_glic_eligible": "false"}: the string is kept and nothing is reported.
C10_Witness ==
    /\ pc = "write"
    /\ content = <<LBrace, TStr(KEY_IS_GLIC), Colon, TStr("false"), RBrace>>
    /\ ~report.changed_is_glic
    /\ FromStr(report.content).v.o[KEY_IS_GLIC] = JStr("false")

(***************************************************************************)
(* Reading the result of apply_patches.                                    *)
(***************************************************************************)
SpecialKeys == {KEY_IS_GLIC, KEY_COUNTRY, KEY_PERMANENT}

\* The call of apply_patches on content has been made.
PatchDone == pc # "patch"

\* The text given to apply_patches parses to a JSON object.
InputIsObject == LET in == FromStr(content) IN in.ok /\ in.v.t = "obj"

\* The top-level object of the input, and of the content returned.
InObj == FromStr(content).v.o
OutObj == FromStr(report.content).v.o

OutputIsObject ==
    /\ report.ok
    /\ LET out == FromStr(report.content) IN out.ok /\ out.v.t = "obj"

\* The paths to every value inside v: object keys, array indices as text.
RECURSIVE PathsOf(_)
PathsOf(v) ==
    {<<>>} \cup
    CASE v.t = "obj" ->
            UNION {{<<k>> \o q : q \in PathsOf(v.o[k])} : k \in DOMAIN v.o}
      [] v.t = "arr" ->
            UNION {{<<ToString(i)>> \o q : q \in PathsOf(v.a[i])} :
                      i \in DOMAIN v.a}
      [] OTHER -> {}

\* The value at path q of v, if there is one.
RECURSIVE ValueAt(_, _)
ValueAt(v, q) ==
    IF q = <<>> THEN [ok |-> TRUE, v |-> v]
    ELSE CASE v.t = "obj" /\ Head(q) \in DOMAIN v.o ->
                 ValueAt(v.o[Head(q)], Tail(q))
           [] v.t = "arr" /\ \E i \in DOMAIN v.a : ToString(i) = Head(q) ->
                 ValueAt(v.a[CHOOSE i \in DOMAIN v.a : ToString(i) = Head(q)],
                         Tail(q))
           [] OTHER -> [ok |-> FALSE, v |-> JNull]

\* The paths to the occurrences of the three key names below the root.
NestedOccurrences(v) ==
    {q \in PathsOf(v) : Len(q) >= 2 /\ q[Len(q)] \in SpecialKeys}

(***************************************************************************)
(* C11. For a JSON object, apply_patches sets the root's                   *)
(* variations_country to the string "us" and reports                       *)
(* changed_variations_country exactly when the key is there, whatever the  *)
(* type of its value; an absent key is not created and the flag is false.  *)
(***************************************************************************)
C11_VariationsCountryNoTypeGuard ==
    LET in == InObj
        out == OutObj
    IN (PatchDone /\ InputIsObject) =>
        /\ OutputIsObject
        /\ report.changed_variations_country <=> KEY_COUNTRY \in DOMAIN in
        /\ IF KEY_COUNTRY \in DOMAIN in
           THEN /\ KEY_COUNTRY \in DOMAIN out
                /\ out[KEY_COUNTRY] = JStr("us")
           ELSE KEY_COUNTRY \notin DOMAIN out

\* {"variations_country": ["cn","us"]}: the array becomes the string "us".
C11_Witness ==
    /\ pc = "write"
    /\ content = <<LBrace, TStr(KEY_COUNTRY), Colon, LBrack, TStr("cn"), Comma,
                   TStr("us"), RBrack, RBrace>>
    /\ report.changed_variations_country
    /\ OutObj[KEY_COUNTRY] = JStr("us")

(***************************************************************************)
(* C12. For a JSON object, apply_patches sets the root's                   *)
(* variations_permanent_consistency_country to the array ["us"] and        *)
(* reports changed_variations_permanent_country exactly when the key is    *)
(* there with an array value; an absent key stays absent and a value that  *)
(* is no array is kept, the flag being false in both cases.                *)
(***************************************************************************)
C12_PermanentCountryArrayGuard ==
    LET in == InObj
        out == OutObj
    IN (PatchDone /\ InputIsObject) =>
        /\ OutputIsObject
        /\ IF KEY_PERMANENT \in DOMAIN in /\ in[KEY_PERMANENT].t = "arr"
           THEN /\ report.changed_variations_permanent_country
                /\ KEY_PERMANENT \in DOMAIN out
                /\ out[KEY_PERMANENT] = JArr(<<JStr("us")>>)
           ELSE /\ ~report.changed_variations_permanent_country
                /\ IF KEY_PERMANENT \in DOMAIN in
                   THEN /\ KEY_PERMANENT \in DOMAIN out
                        /\ out[KEY_PERMANENT] = in[KEY_PERMANENT]
                   ELSE KEY_PERMANENT \notin DOMAIN out

\* The key holds the string "us" in one document and ["cn","cn"] in another:
\* here the string, which is kept.
C12_Witness ==
    /\ pc = "write"
    /\ KEY_PERMANENT \in DOMAIN InObj
    /\ InObj[KEY_PERMANENT] = JStr("us")
    /\ ~report.changed_variations_permanent_country
    /\ OutObj[KEY_PERMANENT] = JStr("us")

(***************************************************************************)
(* C13, as stated. Every occurrence of one of the three key names below    *)
(* the root (inside a nested object or array, at any depth) has in the     *)
(* output exactly the value it had in the input.                           *)
(***************************************************************************)
C13_NestedOccurrencesKept ==
    LET in == InObj
        out == OutObj
    IN (PatchDone /\ InputIsObject) =>
        /\ OutputIsObject
        /\ \A q \in NestedOccurrences(JObj(in)) :
              ValueAt(JObj(out), q) = ValueAt(JObj(in), q)

\* The root-level value under key k is one that apply_patches replaces.
ReplacedAtRoot(obj, k) ==
    \/ k = KEY_IS_GLIC /\ obj[k].t = "bool"
    \/ k = KEY_COUNTRY
    \/ k = KEY_PERMANENT /\ obj[k].t = "arr"

(***************************************************************************)
(* C13, amended. Every occurrence of one of the three key names below the  *)
(* root has in the output exactly the value it had in the input, unless it *)
(* lies inside the root-level value that apply_patches replaces as a whole *)
(* (variations_country of any type, an array under                         *)
(* variations_permanent_consistency_country): that value, occurrences      *)
(* included, is gone from the output.                                      *)
(***************************************************************************)
C13_NestedOccurrencesKeptOutsideReplaced ==
    LET in == InObj
        out == OutObj
    IN (PatchDone /\ InputIsObject) =>
        /\ OutputIsObject
        /\ \A q \in NestedOccurrences(JObj(in)) :
              IF ReplacedAtRoot(in, q[1])
              THEN ~ValueAt(JObj(out), q).ok
              ELSE ValueAt(JObj(out), q) = ValueAt(JObj(in), q)

\* The root's is_glic_eligible and variations_country are patched while the
\* variations_country two objects down, inside "profile", is kept.
C13_Witness ==
    /\ pc = "write"
    /\ InputIsObject
    /\ report.changed_is_glic
    /\ report.changed_variations_country
    /\ \E q \in NestedOccurrences(JObj(InObj)) :
          /\ Len(q) = 3
          /\ q[3] = KEY_COUNTRY
          /\ ValueAt(JObj(OutObj), q) = [ok |-> TRUE, v |-> JStr("cn")]

(***************************************************************************)
(* C14. apply_patches adds no top-level key and removes none, and the      *)
(* value of every top-level key other than the three special keys is in    *)
(* the output what it was in the input; an object with none of the three   *)
(* keys (the empty object too) comes out equal to the input, the three     *)
(* changed-flags false.                                                    *)
(***************************************************************************)
C14_OtherKeysKept ==
    LET in == InObj
        out == OutObj
    IN (PatchDone /\ InputIsObject) =>
        /\ OutputIsObject
        /\ DOMAIN out = DOMAIN in
        /\ \A k \in DOMAIN in \ SpecialKeys : out[k] = in[k]
        /\ DOMAIN in \cap SpecialKeys = {} =>
              /\ out = in
              /\ ~report.changed_is_glic
              /\ ~report.changed_variations_country
              /\ ~report.changed_variations_permanent_country

\* {}: the content returned is the empty object, nothing is reported.
C14_Witness ==
    /\ pc = "write"
    /\ content = <<LBrace, RBrace>>
    /\ OutputIsObject
    /\ OutObj = EmptyMap
    /\ ~report.changed_is_glic
    /\ ~report.changed_variations_country
    /\ ~report.changed_variations_permanent_country

(***************************************************************************)
(* C15. apply_patches called on the content that apply_patches returned    *)
(* for a JSON object succeeds, reports the same three changed-flags as the *)
(* call before and returns a document equal in value to that call's.       *)
(***************************************************************************)
C15_SecondApplicationSame ==
    (PatchDone /\ report0.ok) =>
        /\ OutputIsObject
        /\ report.changed_is_glic = report0.changed_is_glic
        /\ report.changed_variations_country = report0.changed_variations_country
        /\ report.changed_variations_permanent_country
              = report0.changed_variations_permanent_country
        /\ FromStr(report.content).v = FromStr(report0.content).v

\* The second call on a document whose three keys were all patched by the
\* first: it reports the three changes again.
C15_Witness ==
    /\ pc = "write"
    /\ Applications = 2
    /\ report0.ok
    /\ report0.changed_is_glic /\ report.changed_is_glic
    /\ report0.changed_variations_country /\ report.changed_variations_country
    /\ report0.changed_variations_permanent_country
    /\ report.changed_variations_permanent_country

(***************************************************************************)
(* C16. For every text that parses to a JSON object apply_patches          *)
(* succeeds (the re-parse of its own output does not fail), and parsing    *)
(* the content returned gives the document as it was in memory after the   *)
(* three patches.                                                          *)
(***************************************************************************)
C16_RoundTrip ==
    (PatchDone /\ InputIsObject) =>
        /\ report.ok
        /\ report.error = "none"
        /\ LET out == FromStr(report.content)
           IN out.ok /\ out.v = JObj(Mutate(InObj))

\* A document with an array and a nested object: the content returned has
\* line breaks and indentation, and parses to the patched document.
C16_Witness ==
    /\ pc = "write"
    /\ InputIsObject
    /\ KEY_COUNTRY \in DOMAIN InObj /\ InObj[KEY_COUNTRY].t = "arr"
    /\ "profile" \in DOMAIN InObj /\ InObj["profile"].t = "obj"
    /\ \E i \in DOMAIN report.content : report.content[i] = Ws
    /\ report.content # ToStringCompact(JObj(Mutate(InObj)))
    /\ FromStr(report.content).v = JObj(Mutate(InObj))
    /\ JObj(Mutate(InObj)) # JObj(InObj)

(***************************************************************************)
(* C17. For a text that is no valid JSON, or whose root is an array or a   *)
(* scalar, apply_patches returns the invalid-document error and no report: *)
(* no content, and none of the three changed-flags set.                    *)
(***************************************************************************)
C17_RejectedDocuments ==
    (PatchDone /\ content \in RejectedTexts) =>
        /\ ~InputIsObject
        /\ ~report.ok
        /\ report = ReportErr("InvalidJson")
        /\ pc = "returned"
        /\ err = "InvalidJson"

\* ["cn"]: valid JSON whose root is an array.
C17_Witness ==
    /\ pc = "returned"
    /\ content = <<LBrack, TStr("cn"), RBrack>>
    /\ FromStr(content).ok
    /\ report = ReportErr("InvalidJson")
    /\ err = "InvalidJson"

(***************************************************************************)
(* Reading the log of the work after the gate.                             *)
(***************************************************************************)
\* The step after the gate has been taken: a file operation is in the log.
WorkBegun == \E i \in DOMAIN trace : trace[i].e = "file"

\* Restore mode calls neither apply_patches nor any step of the patch
\* workflow, and leaves the backup file as it was.
RestoreLeavesPatchingAlone ==
    restore =>
        /\ backup = backup0
        /\ report = NoReport
        /\ content = <<>>
        /\ \A i \in DOMAIN trace :
              /\ trace[i].e # "patch"
              /\ trace[i].e = "file" => trace[i].a \in {"exists_backup", "restore"}

\* Without a backup file a restore fails and leaves the live file alone.
RestoreWithoutBackup ==
    (restore /\ WorkBegun /\ ~backup0.exists) =>
        /\ RunEnded
        /\ err = "BackupNotFound"
        /\ live = live0
        /\ trace[Len(trace)] = Ev("file", "exists_backup", "missing", <<>>)

(***************************************************************************)
(* C18, as stated. In restore mode, after the gate: with a backup file the *)
(* live file's content becomes the backup's and the backup is unchanged;   *)
(* without one the run fails with the backup-not-found error and the live  *)
(* file is neither created nor modified. Restore mode never calls the      *)
(* Patch Engine and never writes the backup.                               *)
(***************************************************************************)
C18_RestoreCopiesBackup ==
    /\ (restore /\ WorkBegun /\ backup0.exists) =>
          /\ live = File(backup0.text)
          /\ backup = backup0
    /\ RestoreWithoutBackup
    /\ RestoreLeavesPatchingAlone

(***************************************************************************)
(* C18, amended. In restore mode, after the gate: with a backup file whose *)
(* copy succeeds the live file's content becomes the backup's and the run  *)
(* succeeds; when the copy fails the run fails with the I/O error and the  *)
(* live file is as it was or cut short; the backup is unchanged in both    *)
(* cases. Without a backup file the run fails with the backup-not-found    *)
(* error and the live file is neither created nor modified. Restore mode   *)
(* never calls the Patch Engine and never writes the backup.               *)
(***************************************************************************)
C18_RestoreCopiesBackupUnlessCopyFails ==
    /\ (restore /\ WorkBegun /\ backup0.exists) =>
          /\ RunEnded
          /\ backup = backup0
          /\ trace[Len(trace)].e = "file" /\ trace[Len(trace)].a = "restore"
          /\ IF trace[Len(trace)].r = "ok"
             THEN live = File(backup0.text) /\ err = "none"
             ELSE live \in {live0, File(<<>>)} /\ err = "Io"
    /\ RestoreWithoutBackup
    /\ RestoreLeavesPatchingAlone

\* A restore that put the backup's content in place of another document.
C18_Witness ==
    /\ pc = "exited"
    /\ restore
    /\ exitCode = 0
    /\ live0.exists
    /\ live # live0
    /\ live = backup0
    /\ backup = backup0

(***************************************************************************)
(* C19. In patch mode, when the configuration file does not exist, the run *)
(* fails with the config-not-found error and creates neither the           *)
(* configuration file nor the backup file.                                 *)
(***************************************************************************)
C19_MissingConfigIsAnError ==
    (~restore /\ WorkBegun /\ ~live0.exists) =>
        /\ RunEnded
        /\ err = "ConfigNotFound"
        /\ ~live.exists
        /\ backup = backup0
        /\ trace[Len(trace)] = Ev("file", "exists_config", "missing", <<>>)
        /\ \A i \in 1..(Len(trace) - 1) : trace[i].e # "file"

\* No configuration file and no backup file, before the run and after it.
C19_Witness ==
    /\ pc = "exited"
    /\ ~restore
    /\ err = "ConfigNotFound"
    /\ exitCode = 1
    /\ ~live.exists
    /\ ~backup.exists

(***************************************************************************)
(* Errors in the log.                                                      *)
(***************************************************************************)
\* The step logged as e returned an error.
IsErrorEvent(e) ==
    \/ e.e \in {"probe", "gather", "stop"} /\ IsError(e.r)
    \/ e.e = "wait" /\ e.r = "timeout"
    \/ e.e = "stop_return" /\ e.r # "ok"
    \/ e.e = "file" /\ e.r # "ok"
    \/ e.e = "patch" /\ e.r # "ok"

\* An error ends the run: nothing is logged after the step that returned
\* it but stop_chrome passing it on.
ErrorsEndTheRun ==
    /\ err # "none" => RunEnded
    /\ \A i \in DOMAIN trace :
          IsErrorEvent(trace[i]) =>
              /\ RunEnded
              /\ err # "none"
              /\ \/ i = Len(trace)
                 \/ /\ i = Len(trace) - 1
                    /\ trace[Len(trace)].e = "stop_return"
                    /\ trace[Len(trace)].r # "ok"

\* The exit status is zero exactly when run() returned no error.
ExitStatusTellsError ==
    /\ pc = "exited" <=> exitCode # -1
    /\ pc = "exited" => (exitCode = 0 <=> err = "none")
    /\ exitCode \in {-1, 0, 1}

\* Once run() has an error, the one step left is the exit with a status
\* that is not zero: no probe, stop request or file operation is made.
NothingAfterAnError ==
    err # "none" =>
        /\ pc' = "exited"
        /\ exitCode' # 0
        /\ UNCHANGED <<err, live, backup, content, report, trace>>

(***************************************************************************)
(* C20. Every run ends (every external command returning), with exit       *)
(* status zero exactly when no step returned an error; an error of any     *)
(* step (resolver, monitor, terminator, backup, read, patch, write,        *)
(* restore) leads to an exit status that is not zero, no further step      *)
(* being taken.                                                            *)
(***************************************************************************)
C20_TerminatesWithStatus ==
    /\ <>(pc = "exited")
    /\ [](ExitStatusTellsError /\ ErrorsEndTheRun)
    /\ [][NothingAfterAnError]_vars

\* The read fails after the backup was made: exit status 1, and the failed
\* read is the last thing the run did.
C20_Witness ==
    /\ pc = "exited"
    /\ exitCode = 1
    /\ err = "Io"
    /\ trace # <<>>
    /\ IsFile(trace[Len(trace)], "read", "Io")
    /\ live = live0

(***************************************************************************)
(* The bounded wait.                                                       *)
(***************************************************************************)
MAX_PROBES == TIMEOUT_MS \div CHECK_INTERVAL_MS

\* While the wait goes on: every probe made was followed by a full sleep,
\* so no more than ten probes fit in the budget, and the budget is not used
\* up before a probe was made.
WaitProbesBounded ==
    pc = "wait" =>
        /\ waitNo \in {1, 2}
        /\ attempts <= MAX_PROBES
        /\ attempts * CHECK_INTERVAL_MS <= elapsed
        /\ elapsed >= TIMEOUT_MS => attempts >= 1

\* A wait ends with the probe that reports not-running (logged right before
\* the wait's end) or, after a probe that reported running, by its budget.
WaitEndsAtFirstStopped ==
    \A i \in DOMAIN trace :
        /\ (trace[i].e = "probe" /\ trace[i].a \in {"wait1", "wait2"}
               /\ trace[i].r = "stopped") =>
              /\ i < Len(trace)
              /\ trace[i + 1] = Ev("wait", trace[i].a, "stopped", <<>>)
        /\ trace[i].e = "wait" =>
              /\ i > 1
              /\ trace[i - 1].e = "probe"
              /\ trace[i - 1].a = trace[i].a
              /\ trace[i - 1].r = (IF trace[i].r = "stopped" THEN "stopped"
                                   ELSE "running")

\* The step that leaves the wait leaves it after one to ten probes, and the
\* step of a probe that reports not-running is the one that leaves it.
WaitLeftInTime ==
    (pc = "wait" /\ pc' # "wait") =>
        IF trace'[Len(trace')].e = "stop_return"
              /\ trace'[Len(trace') - 1].e = "wait"
        THEN attempts >= 1 /\ attempts <= MAX_PROBES /\ elapsed >= TIMEOUT_MS
        ELSE attempts + 1 <= MAX_PROBES /\ elapsed < TIMEOUT_MS

(***************************************************************************)
(* C21. Each bounded wait (3 s budget, 300 ms interval) makes at least one *)
(* and at most ten Monitor probes, returns at the first probe that reports *)
(* not-running without sleeping or probing again, and ends even if the     *)
(* Monitor reports running every time.                                     *)
(***************************************************************************)
C21_WaitIsBounded ==
    /\ [](WaitProbesBounded /\ WaitEndsAtFirstStopped)
    /\ [][WaitLeftInTime]_vars
    /\ [](pc = "wait" => <>(pc # "wait"))

\* Ten probes reported running and used the budget up to the millisecond.
C21_Witness ==
    /\ pc = "wait"
    /\ attempts = MAX_PROBES
    /\ elapsed = TIMEOUT_MS

(***************************************************************************)
(* C22. On Linux, when the pid set gathered for the graceful stop is       *)
(* empty, stop_chrome sends no signal, makes no wait and no probe, and     *)
(* returns success; the probe the orchestrator makes after stop_chrome     *)
(* still ends the run, no file touched, when it reports running.           *)
(***************************************************************************)
C22_EmptyPidSetIsStopped ==
    \A i \in DOMAIN trace :
        trace[i] = Ev("gather", "TERM", "ok", <<>>) =>
            /\ os = "Linux"
            /\ i < Len(trace)
            /\ trace[i + 1] = Ev("stop_return", "", "ok", <<>>)
            /\ \A k \in DOMAIN trace :
                  /\ trace[k].e \notin {"stop", "wait"}
                  /\ trace[k].e = "probe" => trace[k].a \in {"gate1", "gate2"}
            /\ Len(trace) > i + 1 =>
                  /\ trace[i + 2].e = "probe" /\ trace[i + 2].a = "gate2"
                  /\ trace[i + 2].r # "stopped" =>
                        /\ Len(trace) = i + 2
                        /\ RunEnded
                        /\ err = (IF trace[i + 2].r = "running"
                                  THEN "ChromeStillRunning" ELSE trace[i + 2].r)
                        /\ live = live0
                        /\ backup = backup0

\* No pid was found, stop_chrome returned Ok, and the application runs at
\* the orchestrator's probe: the run ends with no file touched.
C22_Witness ==
    /\ pc = "exited"
    /\ Len(trace) = 5
    /\ trace[3] = Ev("gather", "TERM", "ok", <<>>)
    /\ trace[4] = Ev("stop_return", "", "ok", <<>>)
    /\ trace[5] = Ev("probe", "gate2", "running", <<>>)
    /\ err = "ChromeStillRunning"

(***************************************************************************)
(* Counting the stop requests of the log.                                  *)
(***************************************************************************)
StopRequests(a) == {i \in DOMAIN trace : trace[i].e = "stop" /\ trace[i].a = a}

StopCalls == {i \in DOMAIN trace : trace[i].e = "stop_call"}

(***************************************************************************)
(* C23. Within one call of stop_chrome each stop action is made once at    *)
(* most: one quit request on Macos, one force-terminate on Windows, on     *)
(* Linux one TERM batch and after it one KILL batch; no KILL batch comes   *)
(* before the TERM batch, and none on Macos or Windows.                    *)
(***************************************************************************)
C23_StopActionsOneShot ==
    /\ Cardinality(StopCalls) <= 1
    /\ \A a \in {"quit", "taskkill", "TERM", "KILL"} :
          Cardinality(StopRequests(a)) <= 1
    /\ \A i \in DOMAIN trace :
          trace[i].e = "stop" =>
              /\ trace[i].a \in {"quit", "taskkill", "TERM", "KILL"}
              /\ trace[i].a = "quit" <=> os = "Macos"
              /\ trace[i].a = "taskkill" <=> os = "Windows"
              /\ trace[i].a \in {"TERM", "KILL"} <=> os = "Linux"
              /\ \E c \in StopCalls : c < i
              /\ trace[i].a = "KILL" =>
                    \E j \in 1..(i - 1) :
                        /\ trace[j].e = "stop" /\ trace[j].a = "TERM"
                        /\ trace[j].r = "ok"

\* Linux: the TERM batch, and later in the same call the KILL batch.
C23_Witness ==
    /\ os = "Linux"
    /\ Cardinality(StopCalls) = 1
    /\ \E i \in StopRequests("TERM"), j \in StopRequests("KILL") :
          i < j /\ trace[j].r = "ok"

(***************************************************************************)
(* C24. When the environment variable the OS needs (HOME on Macos and      *)
(* Linux, LOCALAPPDATA on Windows) is not set, the run ends with the       *)
(* missing-environment error before any probe, stop request or file        *)
(* operation, with the kill flag set or not.                               *)
(***************************************************************************)
C24_MissingEnvFailsFast ==
    (/\ current_os(os) = "ok"
     /\ (IF os = "Windows" THEN "LOCALAPPDATA" ELSE "HOME") \notin envSet
     /\ pc # "start") =>
        /\ RunEnded
        /\ err = "MissingEnv"
        /\ trace = <<>>
        /\ live = live0
        /\ backup = backup0
        /\ report = NoReport
        /\ pc = "exited" => exitCode = 1

\* Windows: HOME is set, LOCALAPPDATA is not, and the kill flag is set:
\* nothing was probed or stopped.
C24_Witness ==
    /\ pc = "exited"
    /\ os = "Windows"
    /\ envSet = {"HOME"}
    /\ kill_chrome
    /\ err = "MissingEnv"
    /\ exitCode = 1
    /\ trace = <<>>

(***************************************************************************)
(* Reading the lookups of the log.                                         *)
(***************************************************************************)
\* The lookups logged right before event i: those the step of i made.
RECURSIVE LookupsBefore(_)
LookupsBefore(i) ==
    IF i > 1 /\ trace[i - 1].e = "lookup"
    THEN Append(LookupsBefore(i - 1), trace[i - 1])
    ELSE <<>>

(***************************************************************************)
(* C25. A probe maps the outcome of a name lookup so: exit 0 is running,   *)
(* exit 1 is not running, another exit code or the end by a signal is the  *)
(* command-execution error. On Linux "chrome" is looked up first and       *)
(* "google-chrome" only when the first lookup said not found: found at the *)
(* first lookup is running with no second lookup, an error of the first    *)
(* lookup is returned with no second lookup, and the probe says not        *)
(* running only when both lookups said not found.                          *)
(***************************************************************************)
C25_LookupMapping ==
    LET Expected(code) ==
            CASE code = "exit0" -> "running"
              [] code = "exit1" -> "stopped"
              [] code \in {"exit2", "signal"} -> "CommandFailed"
              [] OTHER -> "Io"
    IN \A i \in DOMAIN trace :
          (trace[i].e = "probe" /\ os \in {"Macos", "Linux"}) =>
              LET L == LookupsBefore(i)
                  r == trace[i].r
              IN IF os = "Macos"
                 THEN /\ Len(L) = 1
                      /\ L[1].a = "Google Chrome"
                      /\ r = Expected(L[1].r)
                 ELSE /\ Len(L) \in {1, 2}
                      /\ L[1].a = "chrome"
                      /\ L[1].r = "exit0" => (Len(L) = 1 /\ r = "running")
                      /\ L[1].r = "exit1" =>
                            /\ Len(L) = 2
                            /\ L[2].a = "google-chrome"
                            /\ r = Expected(L[2].r)
                      /\ L[1].r \notin {"exit0", "exit1"} =>
                            /\ Len(L) = 1
                            /\ r = Expected(L[1].r)
                            /\ r \in {"CommandFailed", "Io"}
                      /\ r = "stopped" <=>
                            /\ Len(L) = 2
                            /\ L[1].r = "exit1"
                            /\ L[2].r = "exit1"

\* Linux: "chrome" is not found, "google-chrome" ends with another exit
\* code: the probe returns the command-execution error.
C25_Witness ==
    /\ os = "Linux"
    /\ Len(trace) = 3
    /\ trace[1] = Ev("lookup", "chrome", "exit1", <<>>)
    /\ trace[2] = Ev("lookup", "google-chrome", "exit2", <<>>)
    /\ trace[3] = Ev("probe", "gate1", "CommandFailed", <<>>)
    /\ err = "CommandFailed"

(***************************************************************************)
(* C26. The pid set given to a signal batch is in strictly ascending       *)
(* order, so without a duplicate, and holds the identifiers that the       *)
(* lookups of the two names printed, each once, whatever the lookups       *)
(* print; when a lookup ends with an error or prints what is no            *)
(* identifier, no batch follows.                                           *)
(***************************************************************************)
C26_PidSetSortedNoDuplicates ==
    LET IsBatch(ev) == ev.e = "stop" /\ ev.a \in {"TERM", "KILL"}
        IsGather(ev) == ev.e = "gather" /\ ev.a \in {"TERM", "KILL"}
        Number(item) == \E n \in 1..MaxPid : item = ToString(n)
        Bad(l) == \/ l.r \notin {"exit0", "exit1"}
                  \/ \E j \in DOMAIN l.p : ~Number(l.p[j])
        Ascending(p) == \A a, b \in DOMAIN p : a < b => p[a] < p[b]
    IN \A i \in DOMAIN trace :
          /\ IsGather(trace[i]) =>
                LET L == LookupsBefore(i)
                    p == trace[i].p
                    Printed == {n \in 1..MaxPid :
                                   \E k \in DOMAIN L : \E j \in DOMAIN L[k].p :
                                       L[k].p[j] = ToString(n)}
                IN /\ Len(L) \in {1, 2}
                   /\ \A k \in DOMAIN L : L[k].a = PidNames[k]
                   /\ IF \E k \in DOMAIN L : Bad(L[k])
                      THEN /\ trace[i].r # "ok"
                           /\ \A j \in DOMAIN trace : j > i => ~IsBatch(trace[j])
                      ELSE /\ Len(L) = 2
                           /\ trace[i].r = "ok"
                           /\ Ascending(p)
                           /\ {p[a] : a \in DOMAIN p} = Printed
          /\ IsBatch(trace[i]) =>
                /\ i > 1
                /\ IsGather(trace[i - 1])
                /\ trace[i - 1].a = trace[i].a
                /\ trace[i - 1].r = "ok"
                /\ trace[i].p = trace[i - 1].p
                /\ trace[i].p # <<>>
                /\ Ascending(trace[i].p)

\* Both names match process 1, and "chrome" prints process 2 before it: the
\* TERM batch goes to <<1, 2>>.
C26_Witness ==
    /\ os = "Linux"
    /\ Len(trace) = 7
    /\ trace[4] = Ev("lookup", "chrome", "exit0", <<"2", "1">>)
    /\ trace[5] = Ev("lookup", "google-chrome", "exit0", <<"1">>)
    /\ trace[6] = Ev("gather", "TERM", "ok", <<1, 2>>)
    /\ trace[7] = Ev("stop", "TERM", "ok", <<1, 2>>)

(***************************************************************************)
(* Reading the runs.                                                       *)
(***************************************************************************)
\* The runs so far, the one under way last.
Runs == Append(history, RunOf(restore, live0, backup0, trace))

\* Whether run r made the file operation a with result st.
DidWith(r, a, st) == \E i \in DOMAIN r.trace : r.trace[i] = Ev("file", a, st, <<>>)

\* A patch-mode run that reached its backup step.
ReachedBackup(r) ==
    /\ ~r.restore
    /\ \E i \in DOMAIN r.trace : r.trace[i].e = "file" /\ r.trace[i].a = "backup"

\* The two files as run k left them; the run under way: as they are now.
LiveAfter(k) == IF k < Len(Runs) THEN Runs[k + 1].live0 ELSE live

BackupAfter(k) == IF k < Len(Runs) THEN Runs[k + 1].backup0 ELSE backup

\* The most recent run that reached its backup step, 0 when there is none.
LastBackupRun ==
    IF \E k \in DOMAIN Runs : ReachedBackup(Runs[k])
    THEN CHOOSE k \in DOMAIN Runs :
            /\ ReachedBackup(Runs[k])
            /\ \A j \in DOMAIN Runs : ReachedBackup(Runs[j]) => j <= k
    ELSE 0

\* A patch run that succeeded, and the restore run right after it that
\* succeeded, leave the live file as it was before the patch run.
PatchThenRestoreRoundTrip ==
    \A k \in DOMAIN Runs :
       (/\ k < Len(Runs)
        /\ ~Runs[k].restore
        /\ DidWith(Runs[k], "write", "ok")
        /\ Runs[k + 1].restore
        /\ DidWith(Runs[k + 1], "restore", "ok"))
       => LiveAfter(k + 1) = Runs[k].live0

\* A restore run leaves the backup file as it found it.
RestoreRunsKeepBackup ==
    \A k \in DOMAIN Runs : Runs[k].restore => BackupAfter(k) = Runs[k].backup0

(***************************************************************************)
(* C27 as stated. After any runs the backup file holds what the live file  *)
(* held at the start of the most recent patch-mode run that reached its    *)
(* backup step, restore runs never change the backup file, and a patch     *)
(* run that succeeded followed by a restore run that succeeded leaves the  *)
(* live file as it was right before the patch run. This does not hold: a   *)
(* run reaches its backup step also when the copy fails, and the backup    *)
(* file is then as it was before, or created and cut short.                *)
(***************************************************************************)
C27_BackupHoldsLastPatchStart ==
    /\ LastBackupRun # 0 => backup = Runs[LastBackupRun].live0
    /\ RestoreRunsKeepBackup
    /\ PatchThenRestoreRoundTrip

(***************************************************************************)
(* C27, amended. After any runs: when the backup copy of the most recent   *)
(* patch-mode run that reached its backup step succeeded, the backup file  *)
(* holds what the live file held at the start of that run; when the copy   *)
(* failed, the backup file is as that run found it or cut short; when no   *)
(* run reached the backup step the backup file is as it was at first.      *)
(* Restore runs never change the backup file, and a patch run that         *)
(* succeeded followed by a restore run that succeeded leaves the live file *)
(* as it was right before the patch run.                                   *)
(***************************************************************************)
C27_BackupHoldsLastSavedStart ==
    /\ LET k == LastBackupRun
       IN IF k = 0 THEN backup = Runs[1].backup0
          ELSE IF DidWith(Runs[k], "backup", "ok")
               THEN backup = Runs[k].live0
               ELSE backup \in {Runs[k].backup0, File(<<>>)}
    /\ RestoreRunsKeepBackup
    /\ PatchThenRestoreRoundTrip

\* Three runs: a patch run that succeeds over an older backup, a second
\* patch run that succeeds, and a restore run that succeeds: the backup
\* holds what the second run found, not what the first found, and so does
\* the live file.
C27_Witness ==
    /\ pc = "exited"
    /\ Len(history) = 2
    /\ ~history[1].restore /\ DidWith(history[1], "write", "ok")
    /\ history[1].backup0 = File(OldBackupText)
    /\ ~history[2].restore /\ DidWith(history[2], "write", "ok")
    /\ history[2].live0 # history[1].live0
    /\ restore /\ DidWith(Runs[3], "restore", "ok")
    /\ backup = history[2].live0
    /\ live = history[2].live0
    /\ backup # history[1].live0
====
